---- MODULE Spec2Model ----
(***************************************************************************)
(* Model of the batching renderer of src/src/lib.rs: Batch, Renderer and   *)
(* the draw loop of App::render.                                           *)
(*                                                                         *)
(* f32 coordinates are modelled by integers: every input square has        *)
(* integer-valued coordinates and sizes, on which f32 addition and         *)
(* subtraction are exact.  A wgpu buffer is modelled by the byte contents  *)
(* it was created from (create_buffer_init copies `contents`).             *)
(***************************************************************************)
EXTENDS Integers, Sequences, FiniteSets, TLC

\* ---------------------------------------------------------------- bounds
MaxAdds == 5       \* most add_square calls in one behaviour
MaxCap  == 3       \* largest max_items_in_batch handed to Renderer::new

\* ------------------------------------------------------ program constants
U16              == 65536   \* `self.items as u16`
DrawIndexEnd     == 6       \* render_pass.draw_indexed(0..6, 0, 0..1)

\* The squares handed to add_square: the one App::run adds, the one of the
\* quad-geometry example, and one that differs in every field.
SquareInputs ==
    { [position |-> <<0, 0>>,  colour |-> <<1, 0, 0>>, size |-> 3],
      [position |-> <<0, 0>>,  colour |-> <<1, 0, 0>>, size |-> 2],
      [position |-> <<-1, 1>>, colour |-> <<1, 1, 1>>, size |-> 1] }

\* Option<T>
None    == [some |-> FALSE]
Some(x) == [some |-> TRUE, val |-> x]

\* struct Vertex { position: [f32; 3], colour: [f32; 3] }
Vertex(p, c) == [position |-> p, colour |-> c]

\* ------------------------------------------------------------------ Batch
\* Batch::new
Batch_new == [v_buff |-> None, i_buff |-> None, vertices |-> <<>>, items |-> 0]

\* The loop body of calculate_buffers, from item i up to (not including) n.
RECURSIVE indices_loop(_, _, _)
indices_loop(i, n, acc) ==
    IF i >= n THEN acc
    ELSE LET offset == 1 * i
         IN  indices_loop(i + 1, n,
                 acc \o << 0 + offset, 1 + offset, 2 + offset,
                           3 + offset, 2 + offset, 1 + offset >>)

\* A stride of 6 (indices per item) instead of the source's stride.
RECURSIVE indices_loop_stride6(_, _, _)
indices_loop_stride6(i, n, acc) ==
    IF i >= n THEN acc
    ELSE LET offset == 6 * i
         IN  indices_loop_stride6(i + 1, n,
                 acc \o << 0 + offset, 1 + offset, 2 + offset,
                           3 + offset, 2 + offset, 1 + offset >>)

indices_stride6(items) == indices_loop_stride6(0, items % U16, <<>>)

\* `indices` of calculate_buffers: for i in 0..self.items as u16 { ... }
indices(items) == indices_loop(0, items % U16, <<>>)

\* Batch::calculate_buffers: both buffers are created anew from the whole
\* vertex list and from the freshly generated index list.
calculate_buffers(self) ==
    [self EXCEPT !.v_buff = Some(self.vertices),
                 !.i_buff = Some(indices(self.items))]

\* The quad grows upwards (y + size) instead of downwards.
square_vertices_up(square) ==
    << Vertex(<< square.position[1],
                 square.position[2],
                 0 >>, square.colour),
       Vertex(<< square.position[1],
                 square.position[2] + square.size,
                 0 >>, square.colour),
       Vertex(<< square.position[1] + square.size,
                 square.position[2],
                 0 >>, square.colour),
       Vertex(<< square.position[1] + square.size,
                 square.position[2] + square.size,
                 0 >>, square.colour) >>

\* The four vertices pushed by Batch::add_square, in push order.
square_vertices(square) ==
    << Vertex(<< square.position[1],
                 square.position[2],
                 0 >>, square.colour),
       Vertex(<< square.position[1],
                 square.position[2] - square.size,
                 0 >>, square.colour),
       Vertex(<< square.position[1] + square.size,
                 square.position[2],
                 0 >>, square.colour),
       Vertex(<< square.position[1] + square.size,
                 square.position[2] - square.size,
                 0 >>, square.colour) >>

\* The buffers are rebuilt before the new item is counted.
Batch_add_square_stale(self, square) ==
    [ calculate_buffers([self EXCEPT
          !.vertices = self.vertices \o square_vertices(square)])
      EXCEPT !.items = self.items + 1 ]

\* Batch::add_square
Batch_add_square(self, square) ==
    calculate_buffers([self EXCEPT
        !.vertices = self.vertices \o square_vertices(square),
        !.items    = self.items + 1])

\* --------------------------------------------------------------- Renderer
\* Renderer::new: one empty batch; max_items_in_batch is stored as given.
Renderer_new == << Batch_new >>

Last(s) == s[Len(s)]

\* The square always goes to the first batch.
Renderer_add_square_first(bs, max, square) ==
    LET opened == IF Last(bs).items = max THEN Append(bs, Batch_new) ELSE bs
    IN  [opened EXCEPT ![1] = Batch_add_square(opened[1], square)]

\* A batch is opened one item too late (> instead of ==).
Renderer_add_square_late(bs, max, square) ==
    LET opened == IF Last(bs).items > max THEN Append(bs, Batch_new) ELSE bs
    IN  [opened EXCEPT ![Len(opened)] = Batch_add_square(Last(opened), square)]

\* A batch is opened one item too early (items + 1 >= max).
Renderer_add_square_early(bs, max, square) ==
    LET opened == IF Last(bs).items + 1 >= max THEN Append(bs, Batch_new) ELSE bs
    IN  [opened EXCEPT ![Len(opened)] = Batch_add_square(Last(opened), square)]

\* A batch is opened whenever the last one is at or over capacity.
Renderer_add_square_geq(bs, max, square) ==
    LET opened == IF Last(bs).items >= max THEN Append(bs, Batch_new) ELSE bs
    IN  [opened EXCEPT ![Len(opened)] = Batch_add_square(Last(opened), square)]

\* Renderer::add_square
Renderer_add_square(bs, max, square) ==
    LET opened == IF Last(bs).items = max THEN Append(bs, Batch_new) ELSE bs
    IN  [opened EXCEPT ![Len(opened)] = Batch_add_square(Last(opened), square)]

\* ------------------------------------------------------------ App::render
\* The commands recorded for one batch by the draw loop.
batch_commands(batch) ==
    << [op |-> "set_vertex_buffer", slot |-> 0, buffer |-> batch.v_buff.val],
       [op |-> "set_index_buffer", buffer |-> batch.i_buff.val],
       [op |-> "draw_indexed", first |-> 0, end |-> DrawIndexEnd] >>

RECURSIVE draw_loop(_, _, _)
draw_loop(bs, k, acc) ==
    IF k > Len(bs) THEN acc
    ELSE draw_loop(bs, k + 1, acc \o batch_commands(bs[k]))

\* `.unwrap()` of v_buff / i_buff panics on a batch without buffers.
unwrap_panics(bs) ==
    \E k \in 1..Len(bs) : ~bs[k].v_buff.some \/ ~bs[k].i_buff.some

\* The render pass of one frame.
render_pass(bs) ==
    << [op |-> "set_pipeline"],
       [op |-> "set_bind_group", index |-> 0, group |-> "camera_bind_group"] >>
    \o draw_loop(bs, 1, <<>>)

\* ------------------------------------------------------------------ state
VARIABLES
    max_items_in_batch,  \* Renderer.max_items_in_batch
    batches,             \* Renderer.batches
    added,               \* the squares passed to add_square so far
    submitted,           \* the command list of the last submitted frame
    result,              \* what the last App::render returned
    panicked             \* an unwrap in App::render failed

vars == << max_items_in_batch, batches, added, submitted, result, panicked >>

Init ==
    /\ max_items_in_batch \in 0..MaxCap
    /\ batches = Renderer_new
    /\ added = <<>>
    /\ submitted = <<>>
    /\ result = "none"
    /\ panicked = FALSE

\* App::add_square -> Renderer::add_square
AddSquare ==
    /\ ~panicked
    /\ Len(added) < MaxAdds
    /\ \E square \in SquareInputs :
         /\ batches' = Renderer_add_square(batches, max_items_in_batch, square)
         /\ added' = Append(added, square)
    /\ UNCHANGED << max_items_in_batch, submitted, result, panicked >>

\* App::render when get_current_texture fails: `?` returns the error.
RenderSurfaceError ==
    /\ ~panicked
    /\ result' = "Err"
    /\ UNCHANGED << max_items_in_batch, batches, added, submitted, panicked >>

\* App::render when an unwrap in the draw loop fails: nothing is submitted.
RenderPanic ==
    /\ ~panicked
    /\ unwrap_panics(batches)
    /\ panicked' = TRUE
    /\ UNCHANGED << max_items_in_batch, batches, added, submitted, result >>

\* App::render running to `Ok(())`: the encoded pass is submitted.
RenderOk ==
    /\ ~panicked
    /\ ~unwrap_panics(batches)
    /\ submitted' = render_pass(batches)
    /\ result' = "Ok"
    /\ UNCHANGED << max_items_in_batch, batches, added, panicked >>

Next == AddSquare \/ RenderSurfaceError \/ RenderPanic \/ RenderOk

Spec == Init /\ [][Next]_vars

\* ---------------------------------------------------------------- helpers
N == Len(added)
C == max_items_in_batch

Ceil(n, c) == (n + c - 1) \div c

RECURSIVE Flatten(_)
Flatten(ss) == IF ss = <<>> THEN <<>> ELSE Head(ss) \o Flatten(Tail(ss))

AllVertices == Flatten([k \in 1..Len(batches) |-> batches[k].vertices])

\* Every batch but the last is full and the last holds the remainder.
Partitioned ==
    /\ \A k \in 1..(Len(batches) - 1) : batches[k].items = C
    /\ Last(batches).items = N - C * (Len(batches) - 1)

\* ----------------------------------------------------------------- claims

\* C1 (as stated): for capacity C >= 1 and any N >= 0 adds, the number of
\* batches is ceil(N / C), every batch but the last holds C items and the
\* last holds N - C * (batches - 1).
C1_Original ==
    C >= 1 => (Len(batches) = Ceil(N, C) /\ Partitioned)

\* C1 (amended): the same for N >= 1; before the first add there is exactly
\* one batch and it is empty.
C1_BatchCount ==
    C >= 1 =>
        IF N = 0
        THEN Len(batches) = 1 /\ batches[1].items = 0
        ELSE Len(batches) = Ceil(N, C) /\ Partitioned

C1_Witness ==
    /\ C = 2 /\ N = 3 /\ Len(batches) = 2
    /\ batches[1].items = 2 /\ batches[2].items = 1

\* C2: for C >= 1, in every reachable state all batches but the last hold
\* exactly C items and the last holds between 0 and C; and a step appends a
\* batch only if the last batch held exactly C items before the step.
C2_FullExceptLast ==
    /\ [](C >= 1 =>
            /\ \A k \in 1..(Len(batches) - 1) : batches[k].items = C
            /\ Last(batches).items >= 0
            /\ Last(batches).items <= C)
    /\ [][(C >= 1 /\ Len(batches') > Len(batches))
            => Last(batches).items = C]_vars

C2_Witness ==
    /\ C = 2 /\ Len(batches) = 3
    /\ batches[1].items = 2 /\ batches[2].items = 2 /\ batches[3].items = 1

C4_StrideFour ==
    \A b \in 1..Len(batches) :
        batches[b].i_buff.some =>
            \A i \in 0..(batches[b].items - 1) :
                SubSeq(batches[b].i_buff.val, 6 * i + 1, 6 * i + 6)
                    = << 4*i, 4*i + 1, 4*i + 2, 4*i + 3, 4*i + 2, 4*i + 1 >>

\* The pass the draw phase is specified to record for the batches bs.
RECURSIVE SpecifiedDraws(_, _)
SpecifiedDraws(bs, k) ==
    IF k > Len(bs) THEN <<>>
    ELSE << [op |-> "set_vertex_buffer", slot |-> 0,
             buffer |-> bs[k].v_buff.val],
            [op |-> "set_index_buffer", buffer |-> bs[k].i_buff.val],
            [op |-> "draw_indexed", first |-> 0, end |-> 6 * bs[k].items] >>
         \o SpecifiedDraws(bs, k + 1)

\* C5: a frame's render binds the camera uniform once before any draw and
\* then issues, for every batch in insertion order, exactly one indexed draw
\* covering 6 * item_count indices of that batch.
C5_DrawsCoverItems ==
    [][RenderOk =>
         submitted' =
             << [op |-> "set_pipeline"],
                [op |-> "set_bind_group", index |-> 0,
                 group |-> "camera_bind_group"] >>
             \o SpecifiedDraws(batches, 1)]_vars

\* The corners of a square at (x, y) with size s and colour c: top-left,
\* bottom-left, top-right, bottom-right.
Corners(sq) ==
    LET x == sq.position[1]
        y == sq.position[2]
        s == sq.size
        c == sq.colour
    IN  << [position |-> << x, y, 0 >>,         colour |-> c],
           [position |-> << x, y - s, 0 >>,     colour |-> c],
           [position |-> << x + s, y, 0 >>,     colour |-> c],
           [position |-> << x + s, y - s, 0 >>, colour |-> c] >>

\* C6: every add_square appends, after the existing vertices, exactly the
\* four corners (x, y, 0), (x, y - s, 0), (x + s, y, 0), (x + s, y - s, 0)
\* of its square, each in the square's colour: the vertices of all batches,
\* in order, are the corners of the squares added, in order.
C6_QuadGeometry ==
    /\ AllVertices = Flatten([k \in 1..N |-> Corners(added[k])])
    /\ (N >= 1 /\ added[N] = [position |-> <<0, 0>>, colour |-> <<1, 0, 0>>,
                             size |-> 2])
         => LET vs == Last(batches).vertices
            IN  SubSeq(vs, Len(vs) - 3, Len(vs)) =
                  << [position |-> <<0, 0, 0>>,  colour |-> <<1, 0, 0>>],
                     [position |-> <<0, -2, 0>>, colour |-> <<1, 0, 0>>],
                     [position |-> <<2, 0, 0>>,  colour |-> <<1, 0, 0>>],
                     [position |-> <<2, -2, 0>>, colour |-> <<1, 0, 0>>] >>

C6_Witness ==
    /\ N >= 2
    /\ added[N] = [position |-> <<0, 0>>, colour |-> <<1, 0, 0>>, size |-> 2]
    /\ added[N - 1] = [position |-> <<-1, 1>>, colour |-> <<1, 1, 1>>,
                       size |-> 1]
    /\ Len(Last(batches).vertices) = 8

\* C7 (as stated): with capacity 0 an add never places its square; only
\* batches that stay empty are opened.
C7_Original ==
    C = 0 => \A k \in 1..Len(batches) : batches[k].items = 0

\* C7 (amended): with capacity 0 every add places its square: the first add
\* opens exactly one batch, the initial batch stays empty, and every square
\* goes into the second batch, which grows beyond the capacity.
C7_ZeroCapacity ==
    C = 0 =>
        /\ batches[1].items = 0
        /\ IF N = 0 THEN Len(batches) = 1
           ELSE Len(batches) = 2 /\ batches[2].items = N

C7_Witness ==
    C = 0 /\ N = 3 /\ Len(batches) = 2 /\ batches[2].items = 3

\* C8: a step never removes, merges, reorders or reuses batches: the batch
\* sequence keeps its length or grows by one at the end, every batch other
\* than the (possibly new) last one is unchanged, and for C >= 1 a batch
\* that holds C items is never changed again.
C8_GrowOnly ==
    [][ /\ Len(batches') \in { Len(batches), Len(batches) + 1 }
        /\ \A k \in 1..(Len(batches') - 1) :
               k <= Len(batches) /\ batches'[k] = batches[k]
        /\ C >= 1 =>
               \A k \in 1..Len(batches) :
                   batches[k].items = C => batches'[k] = batches[k] ]_vars

C8_Witness ==
    /\ C = 1 /\ Len(batches) = 3 /\ N = 3
    /\ \A k \in 1..3 : batches[k].items = 1

\* C9: a batch with at least one item has a vertex buffer holding exactly
\* its whole vertex list (4 * item_count vertices) and an index buffer
\* holding exactly the index sequence generated for its item_count.
C9_BuffersCurrent ==
    \A b \in 1..Len(batches) :
        batches[b].items >= 1 =>
            /\ batches[b].v_buff = Some(batches[b].vertices)
            /\ Len(batches[b].v_buff.val) = 4 * batches[b].items
            /\ batches[b].i_buff = Some(indices(batches[b].items))

C9_Witness ==
    \E b \in 1..Len(batches) :
        /\ batches[b].items = 2
        /\ batches[b].v_buff.some
        /\ Len(batches[b].v_buff.val) = 8
        /\ Len(batches[b].i_buff.val) = 12

\* C10: whenever App::render runs on a renderer reached from Renderer::new
\* by any number of adds (none included), every batch has both buffers, so
\* the unwrap of v_buff / i_buff never fails.
C10_UnwrapNeverFails ==
    C >= 1 => ~panicked

====
